---- MODULE Spec2Model ----
(***************************************************************************)
(* Model of build_img.py (MMUKO-OS boot image generator).                  *)
(*                                                                         *)
(*   Spec      the three library functions create_boot_image, verify_image *)
(*             and print_info called in any order on a small file system   *)
(*   SpecMain  the command-line program (the __main__ block)               *)
(*   SpecBoot  the embedded x86 boot code run as a machine on the image    *)
(***************************************************************************)
EXTENDS Integers, Sequences, FiniteSets, TLC

VARIABLES
    files,      \* path -> bytes, for every regular file that exists
    dirs,       \* set of existing directories (the current directory is implicit)
    call,       \* the last library call and what it returned / printed / raised
    pc,         \* position of the __main__ block
    argv,       \* sys.argv: the script name, then the arguments
    events,     \* what the __main__ run has done so far, in order
    stdout,     \* lines printed by the __main__ run
    exitcode,   \* process exit status (-1 while running)
    cpu,        \* x86 registers and flags
    tty,        \* int 0x10 teletype calls issued so far, as <<AH, AL>>
    lastread    \* offset in the image of the last byte fetched by lodsb (-1: none)

vars == <<files, dirs, call, pc, argv, events, stdout, exitcode, cpu, tty, lastread>>

fsvars == <<files, dirs, call>>
mainvars == <<pc, argv, events, stdout, exitcode>>
cpuvars == <<cpu, tty, lastread>>

----------------------------------------------------------------------------
(* Bounds of the model *)

\* deepest directory nesting of an output path
MaxDepth == 2
\* number of alternative values tried for each mutated byte
NumFlip == 2
\* number of bytes appended to make an over-long file
MaxExtra == 1
\* number of register values the BIOS may leave in AX after int 0x10
NumClobber == 2

----------------------------------------------------------------------------
(* Program constants *)

SECTOR_SIZE == 512
CODE_OFFSET == 8
MSG_OFFSET == 96
SIG_OFFSET == 510
LOAD_ADDR == 31744

MAGIC == <<78, 88, 79, 66>>

\* jz with a displacement of 2: it lands on the jmp back into the loop
boot_code_short_jz ==
    << 250, 49, 192, 142, 216, 142, 192, 188, 0, 124, 190, 96, 124, 180, 14,
       172, 8, 192, 116, 2, 205, 16, 235, 245, 176, 85, 244, 235, 254 >>

boot_code ==
    << 250,
       49, 192,
       142, 216,
       142, 192,
       188, 0, 124,
       190, 96, 124,
       180, 14,
       172,
       8, 192,
       116, 4,
       205, 16,
       235, 245,
       176, 85,
       244,
       235, 254 >>

msg ==
    << 61, 61, 61, 32, 77, 77, 85, 75, 79, 45, 79, 83, 32, 82, 73, 78, 71, 66,
       79, 79, 84, 32, 61, 61, 61, 13, 10,
       79, 66, 73, 78, 69, 88, 85, 83, 32, 78, 83, 73, 71, 73, 73, 32, 86, 101,
       114, 105, 102, 121, 13, 10,
       91, 80, 104, 97, 115, 101, 32, 49, 93, 32, 83, 80, 65, 82, 83, 69, 13, 10,
       91, 80, 104, 97, 115, 101, 32, 50, 93, 32, 82, 69, 77, 69, 77, 66, 69, 82,
       13, 10,
       91, 80, 104, 97, 115, 101, 32, 51, 93, 32, 65, 67, 84, 73, 86, 69, 13, 10,
       91, 80, 104, 97, 115, 101, 32, 52, 93, 32, 86, 69, 82, 73, 70, 89, 13, 10,
       10,
       78, 83, 73, 71, 73, 73, 95, 86, 69, 82, 73, 70, 73, 69, 68, 13, 10,
       66, 79, 79, 84, 95, 83, 85, 67, 67, 69, 83, 83, 13, 10, 0 >>

DEFAULT_PATH == <<"img", "mmuko-os.img">>

----------------------------------------------------------------------------
(* Python byte-sequence primitives.  Offsets are 0-based as in the source; *)
(* TLA+ sequences are 1-based.                                             *)

Min2(a, b) == IF a < b THEN a ELSE b
Max2(a, b) == IF a > b THEN a ELSE b

\* bytearray(n)
ByteArray(n) == [i \in 1..n |-> 0]

\* s[lo:hi] with both ends clamped to the length
PySlice(s, lo, hi) ==
    LET l == Min2(lo, Len(s))
        h == Max2(Min2(hi, Len(s)), l)
    IN  SubSeq(s, l + 1, h)

\* s[lo:lo] = v: the bytes are inserted and the buffer grows
SliceInsert(s, lo, hi, v) ==
    LET l == Min2(lo, Len(s))
    IN  SubSeq(s, 1, l) \o v \o SubSeq(s, l + 1, Len(s))

\* s[lo:hi] = v  (the slice is replaced, whatever the length of v)
SliceAssign(s, lo, hi, v) ==
    LET l == Min2(lo, Len(s))
        h == Max2(Min2(hi, Len(s)), l)
    IN  SubSeq(s, 1, l) \o v \o SubSeq(s, h + 1, Len(s))

\* s[i] is defined
InRange(s, i) == i >= 0 /\ i < Len(s)

\* s[i] = b
ItemAssign(s, i, b) == [s EXCEPT ![i + 1] = b]

\* s[i]
Item(s, i) == s[i + 1]

\* data.find(b'\x00'): the search starts at offset 0
PyFindFromStart(data, b, start) ==
    LET hits == {i \in 0..(Len(data) - 1) : data[i + 1] = b}
    IN  IF hits = {} THEN -1
        ELSE CHOOSE i \in hits : \A j \in hits : i <= j

\* data.find(b'\x00', start)
PyFind(data, b, start) ==
    LET hits == {i \in start..(Len(data) - 1) : data[i + 1] = b}
    IN  IF hits = {} THEN -1
        ELSE CHOOSE i \in hits : \A j \in hits : i <= j

\* bytes.decode('ascii') raises on a byte >= 0x80
AsciiOk(bs) == \A i \in 1..Len(bs) : bs[i] < 128

\* bytes.decode('ascii', errors='replace'): a byte >= 0x80 becomes U+FFFD
DecodeReplace(bs) == [i \in 1..Len(bs) |-> IF bs[i] < 128 THEN bs[i] ELSE 65533]

\* f"{b:02X}": two hexadecimal digits
Hex2(b) == <<b \div 16, b % 16>>

----------------------------------------------------------------------------
(* create_boot_image: the buffer, field by field *)

sector_init == ByteArray(SECTOR_SIZE)
sector_magic == SliceAssign(sector_init, 0, 4, MAGIC)
sector_header ==
    ItemAssign(ItemAssign(ItemAssign(ItemAssign(sector_magic, 4, 1), 5, 0), 6, 254), 7, 1)
sector_code ==
    SliceAssign(sector_header, CODE_OFFSET, CODE_OFFSET + Len(boot_code), boot_code)
sector_msg ==
    SliceAssign(sector_code, MSG_OFFSET, MSG_OFFSET + Len(msg), msg)
\* the signature bytes in the other order
sector_swapped ==
    ItemAssign(ItemAssign(sector_msg, SIG_OFFSET, 170), SIG_OFFSET + 1, 85)

sector ==
    ItemAssign(ItemAssign(sector_msg, SIG_OFFSET, 85), SIG_OFFSET + 1, 170)

\* os.path.dirname of a path given as its components
DirName(p) == SubSeq(p, 1, Len(p) - 1)

\* os.makedirs(d, exist_ok=True): "" does not name a directory
MakedirsRaises(d) == d = <<>>
Makedirs(ds, d) == ds \cup {SubSeq(d, 1, k) : k \in 1..Len(d)}

\* open(path, 'wb') needs the parent directory
ParentExists(ds, p) == DirName(p) = <<>> \/ DirName(p) \in ds

\* with open(path, 'wb') as f: f.write(data)
WriteFile(fs, p, data) ==
    [q \in (DOMAIN fs) \cup {p} |-> IF q = p THEN data ELSE fs[q]]

\* the file opened for writing: it is truncated
AfterReadTruncating(fs, p) ==
    IF p \in DOMAIN fs THEN [q \in DOMAIN fs |-> IF q = p THEN <<>> ELSE fs[q]] ELSE fs

\* with open(path, 'rb') as f: data = f.read()   leaves the file system as it is
AfterRead(fs, p) == fs

NoBytes == <<>>
Before(fs, p) == IF p \in DOMAIN fs THEN fs[p] ELSE NoBytes

\* one printed line: what it reports, the value shown, the path shown
LineP(tag, val, p) == [tag |-> tag, val |-> val, path |-> p]

RetNone == [kind |-> "None", b |-> FALSE, p |-> <<>>]
RetBool(v) == [kind |-> "bool", b |-> v, p |-> <<>>]
RetPath(q) == [kind |-> "str", b |-> FALSE, p |-> q]
RetRaised == [kind |-> "raised", b |-> FALSE, p |-> <<>>]

\* create_boot_image(output_path): the buffer is built, the directory made,
\* the file written, the path returned
create_boot_image(fs, ds, p) ==
    IF MakedirsRaises(DirName(p))
    THEN [files |-> fs, dirs |-> ds, ret |-> RetRaised, exc |-> "FileNotFoundError"]
    ELSE LET ds2 == Makedirs(ds, DirName(p))
         IN  IF ~ParentExists(ds2, p)
             THEN [files |-> fs, dirs |-> ds2, ret |-> RetRaised,
                   exc |-> "FileNotFoundError"]
             ELSE [files |-> WriteFile(fs, p, sector), dirs |-> ds2,
                   ret |-> RetPath(p), exc |-> "none"]

----------------------------------------------------------------------------
(* verify_image *)

SizeError(data) == LineP("ERROR: Image size", <<Len(data)>>, <<>>)
MagicError(magic) == LineP("ERROR: RIFT magic", magic, <<>>)
SigError(data) ==
    LineP("ERROR: Boot signature", Hex2(Item(data, 510)) \o Hex2(Item(data, 511)), <<>>)

Verdict(r, o, e) == [ret |-> r, out |-> o, exc |-> e]

\* the signature test  data[510] != 0x55 or data[511] != 0xAA  and its report
VerifySignature(data) ==
    IF ~InRange(data, 510) THEN Verdict(RetRaised, <<>>, "IndexError")
    ELSE IF ~InRange(data, 511) THEN Verdict(RetRaised, <<>>, "IndexError")
    ELSE IF Item(data, 510) # 85 \/ Item(data, 511) # 170
         THEN Verdict(RetBool(FALSE), <<SigError(data)>>, "none")
         ELSE Verdict(RetBool(TRUE), <<>>, "none")

\* the signature tested before the magic
VerifySignatureFirst(data) ==
    IF VerifySignature(data).ret # RetBool(TRUE) THEN VerifySignature(data)
    ELSE IF PySlice(data, 0, 4) # MAGIC
    THEN Verdict(RetBool(FALSE), <<MagicError(PySlice(data, 0, 4))>>, "none")
    ELSE Verdict(RetBool(TRUE), <<>>, "none")

\* the magic test and what follows it
VerifyMagic(data) ==
    IF PySlice(data, 0, 4) # MAGIC
    THEN Verdict(RetBool(FALSE), <<MagicError(PySlice(data, 0, 4))>>, "none")
    ELSE VerifySignature(data)

\* the length test left out
VerifyDataNoLength(data) == VerifyMagic(data)

\* the checks of verify_image on the bytes read
VerifyData(data) ==
    IF Len(data) # SECTOR_SIZE
    THEN Verdict(RetBool(FALSE), <<SizeError(data)>>, "none")
    ELSE VerifyMagic(data)

verify_image(fs, p) ==
    IF p \notin DOMAIN fs
    THEN Verdict(RetRaised, <<>>, "FileNotFoundError")
    ELSE VerifyData(fs[p])

----------------------------------------------------------------------------
(* print_info *)

\* msg_end = data.find(b'\x00', 0x60); the message is printed when msg_end > 0x60
MessageLines(data) ==
    LET msg_end == PyFind(data, 0, MSG_OFFSET)
    IN  IF msg_end > MSG_OFFSET
        THEN <<LineP("Boot Message", DecodeReplace(PySlice(data, MSG_OFFSET, msg_end)), <<>>)>>
        ELSE <<>>

Report(o, e) == [out |-> o, exc |-> e]

\* the report of print_info, line by line, up to the first expression that raises
InfoData(data, p) ==
    LET l1 == <<LineP("Image", <<>>, p), LineP("Size", <<Len(data)>>, <<>>)>>
        l2 == l1 \o <<LineP("RIFT Magic", PySlice(data, 0, 4), <<>>)>>
        l3 == l2 \o <<LineP("Version", <<Item(data, 4)>>, <<>>)>>
        l4 == l3 \o <<LineP("Checksum", Hex2(Item(data, 6)), <<>>)>>
        l5 == l4 \o <<LineP("Boot Signature",
                            Hex2(Item(data, 510)) \o Hex2(Item(data, 511)), <<>>)>>
    IN  IF ~AsciiOk(PySlice(data, 0, 4)) THEN Report(l1, "UnicodeDecodeError")
        ELSE IF ~InRange(data, 4) THEN Report(l2, "IndexError")
        ELSE IF ~InRange(data, 6) THEN Report(l3, "IndexError")
        ELSE IF ~InRange(data, 510) \/ ~InRange(data, 511) THEN Report(l4, "IndexError")
        ELSE Report(l5 \o MessageLines(data), "none")

print_info(fs, p) ==
    IF p \notin DOMAIN fs
    THEN Report(<<>>, "FileNotFoundError")
    ELSE InfoData(fs[p], p)

----------------------------------------------------------------------------
(* The file system the functions are called on *)

\* output paths: a bare file name, the default path (one directory level) and
\* a path under MaxDepth nested directories
PathOfDepth(d) == [i \in 1..d |-> "out"] \o <<"boot.img">>
Paths == {PathOfDepth(0), DEFAULT_PATH, PathOfDepth(MaxDepth)}

Ancestors(p) == {SubSeq(p, 1, k) : k \in 1..(Len(p) - 1)}

\* values a mutated byte takes
FlipVals(b) == {(b + 85 * k) % 256 : k \in 1..NumFlip}
Flipped(off) == {ItemAssign(sector, off, v) : v \in FlipVals(Item(sector, off))}

TruncLens == {0, 3, 4, 96, 97, 300, 510, 511}
MutOffsets == {0, 3, 4, 6, 7, 8, 96, 253, 510, 511}

ZeroMagic == ItemAssign(sector, 0, 0)
NoNul == [i \in 1..SECTOR_SIZE |-> IF i > MSG_OFFSET /\ sector[i] = 0 THEN 32 ELSE sector[i]]

\* what a file may hold before the program touches it
PriorContents ==
    {sector}
    \cup {PySlice(sector, 0, n) : n \in TruncLens}
    \cup {sector \o ByteArray(k) : k \in 1..MaxExtra}
    \cup UNION {Flipped(off) : off \in MutOffsets}
    \cup { ByteArray(SECTOR_SIZE),
           ItemAssign(ZeroMagic, 511, 0),
           PySlice(ZeroMagic, 0, 300),
           ItemAssign(ItemAssign(sector, 510, 170), 511, 85),
           ItemAssign(sector, MSG_OFFSET, 0),
           NoNul }

NoCall == [fn |-> "none", path |-> <<>>, ret |-> RetNone, out |-> <<>>,
           exc |-> "none", existed |-> FALSE, before |-> NoBytes,
           follows |-> FALSE]

\* the call now made on p comes right after a create_boot_image(p) that returned
Follows(c, p) == c.fn = "create_boot_image" /\ c.exc = "none" /\ c.path = p

InitFs ==
    /\ \E p \in Paths :
          /\ dirs \in {{}, Ancestors(p)}
          /\ \/ files = <<>>
             \/ /\ ParentExists(dirs, p)
                /\ \E c \in PriorContents : files = [q \in {p} |-> c]
    /\ call = NoCall

IdleMain ==
    /\ pc = "idle"
    /\ argv = <<>>
    /\ events = <<>>
    /\ stdout = <<>>
    /\ exitcode = -1

NoCpu == [ip |-> 0, cs |-> 0, ah |-> 0, al |-> 0, ds |-> 0, es |-> 0, sp |-> 0,
          si |-> 0, zf |-> FALSE, intf |-> FALSE, df |-> FALSE, halted |-> TRUE]

IdleCpu ==
    /\ cpu = NoCpu
    /\ tty = <<>>
    /\ lastread = -1

Init == InitFs /\ IdleMain /\ IdleCpu

CallCreate(p) ==
    LET r == create_boot_image(files, dirs, p)
    IN  /\ pc = "idle"
        /\ files' = r.files
        /\ dirs' = r.dirs
        /\ call' = [fn |-> "create_boot_image", path |-> p, ret |-> r.ret,
                    out |-> <<>>, exc |-> r.exc,
                    existed |-> p \in DOMAIN files, before |-> Before(files, p),
                    follows |-> Follows(call, p)]
        /\ UNCHANGED <<mainvars, cpuvars>>

CallVerify(p) ==
    LET r == verify_image(files, p)
    IN  /\ pc = "idle"
        /\ files' = AfterRead(files, p)
        /\ call' = [fn |-> "verify_image", path |-> p, ret |-> r.ret,
                    out |-> r.out, exc |-> r.exc,
                    existed |-> p \in DOMAIN files, before |-> Before(files, p),
                    follows |-> Follows(call, p)]
        /\ UNCHANGED <<dirs, mainvars, cpuvars>>

CallPrintInfo(p) ==
    LET r == print_info(files, p)
    IN  /\ pc = "idle"
        /\ files' = AfterRead(files, p)
        /\ call' = [fn |-> "print_info", path |-> p,
                    ret |-> IF r.exc = "none" THEN RetNone ELSE RetRaised,
                    out |-> r.out, exc |-> r.exc,
                    existed |-> p \in DOMAIN files, before |-> Before(files, p),
                    follows |-> Follows(call, p)]
        /\ UNCHANGED <<dirs, mainvars, cpuvars>>

Next ==
    \/ \E p \in Paths : CallCreate(p)
    \/ \E p \in Paths : CallVerify(p)
    \/ \E p \in Paths : CallPrintInfo(p)

Spec == Init /\ [][Next]_vars


----------------------------------------------------------------------------
(* The command-line program: the __main__ block *)

SCRIPT == <<"build_img.py">>

\* the argument ignored: the default path whatever the command line
OutputPathIgnoresArgument(av) == DEFAULT_PATH

\* output = sys.argv[1] if len(sys.argv) > 1 else "img/mmuko-os.img"
OutputPath(av) == IF Len(av) > 1 THEN av[2] ELSE DEFAULT_PATH

Banner(p) ==
    <<LineP("=== MMUKO-OS Boot Image Generator ===", <<>>, <<>>),
      LineP("Creating", <<>>, p)>>
SuccessLines ==
    <<LineP("Boot image created successfully", <<>>, <<>>), LineP("", <<>>, <<>>)>>
FailureLines == <<LineP("Boot image verification failed", <<>>, <<>>)>>

\* the report printed and the process ended with status 0 on either verdict
MainOutcomeAlwaysReports(verdict) ==
    [lines |-> SuccessLines, describe |-> TRUE, exit |-> 0]

\* if verify_image(output): success marker, print_info, fall off the end (0)
\* else: failure marker, sys.exit(1)
MainOutcome(verdict) ==
    IF verdict
    THEN [lines |-> SuccessLines, describe |-> TRUE, exit |-> 0]
    ELSE [lines |-> FailureLines, describe |-> FALSE, exit |-> 1]

\* (an exception nobody catches ends the interpreter with status 1)

ArgvChoices ==
    {<<SCRIPT>>} \cup {<<SCRIPT, p>> : p \in Paths}
                 \cup {<<SCRIPT, PathOfDepth(MaxDepth), PathOfDepth(0)>>}

InitMain ==
    /\ InitFs
    /\ IdleCpu
    /\ pc = "start"
    /\ argv \in ArgvChoices
    /\ events = <<>>
    /\ stdout = <<>>
    /\ exitcode = -1

MainBanner ==
    /\ pc = "start"
    /\ pc' = "create"
    /\ stdout' = stdout \o Banner(OutputPath(argv))
    /\ events' = Append(events, "banner")
    /\ UNCHANGED <<fsvars, argv, exitcode, cpuvars>>

MainCreate ==
    LET p == OutputPath(argv)
        r == create_boot_image(files, dirs, p)
    IN  /\ pc = "create"
        /\ files' = r.files
        /\ dirs' = r.dirs
        /\ call' = [fn |-> "create_boot_image", path |-> p, ret |-> r.ret,
                    out |-> <<>>, exc |-> r.exc,
                    existed |-> p \in DOMAIN files, before |-> Before(files, p),
                    follows |-> Follows(call, p)]
        /\ IF r.exc = "none"
           THEN /\ pc' = "verify"
                /\ events' = Append(events, "create_boot_image")
                /\ exitcode' = exitcode
           ELSE /\ pc' = "exited"
                /\ events' = events \o <<"create_boot_image raised", "exit">>
                /\ exitcode' = 1
        /\ UNCHANGED <<argv, stdout, cpuvars>>

MainVerify ==
    LET p == OutputPath(argv)
        r == verify_image(files, p)
    IN  /\ pc = "verify"
        /\ files' = AfterRead(files, p)
        /\ call' = [fn |-> "verify_image", path |-> p, ret |-> r.ret,
                    out |-> r.out, exc |-> r.exc,
                    existed |-> p \in DOMAIN files, before |-> Before(files, p),
                    follows |-> Follows(call, p)]
        /\ stdout' = stdout \o r.out
        /\ IF r.exc = "none"
           THEN /\ pc' = "branch"
                /\ events' = Append(events,
                      IF r.ret.b THEN "verify_image True" ELSE "verify_image False")
                /\ exitcode' = exitcode
           ELSE /\ pc' = "exited"
                /\ events' = events \o <<"verify_image raised", "exit">>
                /\ exitcode' = 1
        /\ UNCHANGED <<dirs, argv, cpuvars>>

MainBranch ==
    LET o == MainOutcome(call.ret.b)
    IN  /\ pc = "branch"
        /\ stdout' = stdout \o o.lines
        /\ IF o.describe
           THEN /\ pc' = "info"
                /\ events' = Append(events, "success marker")
                /\ exitcode' = exitcode
           ELSE /\ pc' = "exited"
                /\ events' = events \o <<"failure marker", "exit">>
                /\ exitcode' = o.exit
        /\ UNCHANGED <<fsvars, argv, cpuvars>>

MainInfo ==
    LET p == OutputPath(argv)
        r == print_info(files, p)
    IN  /\ pc = "info"
        /\ files' = AfterRead(files, p)
        /\ call' = [fn |-> "print_info", path |-> p,
                    ret |-> IF r.exc = "none" THEN RetNone ELSE RetRaised,
                    out |-> r.out, exc |-> r.exc,
                    existed |-> p \in DOMAIN files, before |-> Before(files, p),
                    follows |-> Follows(call, p)]
        /\ stdout' = stdout \o r.out
        /\ pc' = "exited"
        /\ IF r.exc = "none"
           THEN /\ events' = events \o <<"print_info", "exit">>
                /\ exitcode' = MainOutcome(TRUE).exit
           ELSE /\ events' = events \o <<"print_info raised", "exit">>
                /\ exitcode' = 1
        /\ UNCHANGED <<dirs, argv, cpuvars>>

NextMain == MainBanner \/ MainCreate \/ MainVerify \/ MainBranch \/ MainInfo

SpecMain == InitMain /\ [][NextMain]_vars

----------------------------------------------------------------------------
(* The boot code of the image, run by an 8086 in real mode with the image  *)
(* loaded at 0x7C00 and execution entered at the first code byte           *)

\* physical memory: the 512 bytes of the image at LOAD_ADDR
InImage(a) == a >= LOAD_ADDR /\ a < LOAD_ADDR + SECTOR_SIZE
Mem(a) == IF InImage(a) THEN sector[a - LOAD_ADDR + 1] ELSE 0

Phys(seg, off) == (seg * 16 + off) % 1048576
Fetch(k) == Mem(Phys(cpu.cs, (cpu.ip + k) % 65536))
Advance(n) == (cpu.ip + n) % 65536

\* an 8-bit displacement is signed
SignExtend8(b) == IF b < 128 THEN b ELSE b - 256

Running == pc = "boot" /\ ~cpu.halted

\* what the BIOS may leave in AX on return from int 0x10: the caller's value,
\* or one of NumClobber values of its own
AxAfterInt == {[ah |-> cpu.ah, al |-> cpu.al]}
              \cup {[ah |-> k, al |-> k] : k \in 0..(NumClobber - 1)}

\* entry states: CS:IP is 0000:7C08 or 07C0:0008, the direction flag is clear,
\* the other registers hold whatever the firmware left
InitBoot ==
    /\ files = <<>>
    /\ dirs = {}
    /\ call = NoCall
    /\ pc = "boot"
    /\ argv = <<>>
    /\ events = <<>>
    /\ stdout = <<>>
    /\ exitcode = -1
    /\ tty = <<>>
    /\ lastread = -1
    /\ \E entry \in {[cs |-> 0, ip |-> LOAD_ADDR + CODE_OFFSET],
                     [cs |-> 1984, ip |-> CODE_OFFSET]},
          a \in {0, 14, 255}, d \in {0, 1984, 65535}, i \in {0, 31999}, z \in BOOLEAN :
          cpu = [ip |-> entry.ip, cs |-> entry.cs, ah |-> a, al |-> a, ds |-> d,
                 es |-> d, sp |-> 0, si |-> i, zf |-> z, intf |-> z, df |-> FALSE,
                 halted |-> FALSE]

\* FA  cli
Cli ==
    /\ Running /\ Fetch(0) = 250
    /\ cpu' = [cpu EXCEPT !.ip = Advance(1), !.intf = FALSE]
    /\ UNCHANGED <<fsvars, mainvars, tty, lastread>>

\* 31 C0  xor ax, ax
XorAxAx ==
    /\ Running /\ Fetch(0) = 49 /\ Fetch(1) = 192
    /\ cpu' = [cpu EXCEPT !.ip = Advance(2), !.ah = 0, !.al = 0, !.zf = TRUE]
    /\ UNCHANGED <<fsvars, mainvars, tty, lastread>>

\* 8E D8  mov ds, ax     8E C0  mov es, ax
MovSregAx ==
    /\ Running /\ Fetch(0) = 142 /\ Fetch(1) \in {216, 192}
    /\ cpu' = IF Fetch(1) = 216
              THEN [cpu EXCEPT !.ip = Advance(2), !.ds = cpu.ah * 256 + cpu.al]
              ELSE [cpu EXCEPT !.ip = Advance(2), !.es = cpu.ah * 256 + cpu.al]
    /\ UNCHANGED <<fsvars, mainvars, tty, lastread>>

\* BC iw  mov sp, imm16
MovSpImm ==
    /\ Running /\ Fetch(0) = 188
    /\ cpu' = [cpu EXCEPT !.ip = Advance(3), !.sp = Fetch(1) + 256 * Fetch(2)]
    /\ UNCHANGED <<fsvars, mainvars, tty, lastread>>

\* BE iw  mov si, imm16
MovSiImm ==
    /\ Running /\ Fetch(0) = 190
    /\ cpu' = [cpu EXCEPT !.ip = Advance(3), !.si = Fetch(1) + 256 * Fetch(2)]
    /\ UNCHANGED <<fsvars, mainvars, tty, lastread>>

\* B4 ib  mov ah, imm8
MovAhImm ==
    /\ Running /\ Fetch(0) = 180
    /\ cpu' = [cpu EXCEPT !.ip = Advance(2), !.ah = Fetch(1)]
    /\ UNCHANGED <<fsvars, mainvars, tty, lastread>>

\* B0 ib  mov al, imm8
MovAlImm ==
    /\ Running /\ Fetch(0) = 176
    /\ cpu' = [cpu EXCEPT !.ip = Advance(2), !.al = Fetch(1)]
    /\ UNCHANGED <<fsvars, mainvars, tty, lastread>>

\* AC  lodsb: AL = [DS:SI], SI moves by one in the direction DF gives
Lodsb ==
    /\ Running /\ Fetch(0) = 172
    /\ cpu' = [cpu EXCEPT !.ip = Advance(1),
                          !.al = Mem(Phys(cpu.ds, cpu.si)),
                          !.si = IF cpu.df THEN (cpu.si + 65535) % 65536
                                 ELSE (cpu.si + 1) % 65536]
    /\ lastread' = Phys(cpu.ds, cpu.si) - LOAD_ADDR
    /\ UNCHANGED <<fsvars, mainvars, tty>>

\* 08 C0  or al, al
OrAlAl ==
    /\ Running /\ Fetch(0) = 8 /\ Fetch(1) = 192
    /\ cpu' = [cpu EXCEPT !.ip = Advance(2), !.zf = (cpu.al = 0)]
    /\ UNCHANGED <<fsvars, mainvars, tty, lastread>>

\* 74 cb  jz rel8
Jz ==
    /\ Running /\ Fetch(0) = 116
    /\ cpu' = [cpu EXCEPT !.ip = IF cpu.zf
                                 THEN (Advance(2) + SignExtend8(Fetch(1)) + 65536) % 65536
                                 ELSE Advance(2)]
    /\ UNCHANGED <<fsvars, mainvars, tty, lastread>>

\* EB cb  jmp rel8
JmpShort ==
    /\ Running /\ Fetch(0) = 235
    /\ cpu' = [cpu EXCEPT !.ip = (Advance(2) + SignExtend8(Fetch(1)) + 65536) % 65536]
    /\ UNCHANGED <<fsvars, mainvars, tty, lastread>>

\* CD 10  int 0x10: the BIOS video service selected by AH, AL the character
Int10 ==
    /\ Running /\ Fetch(0) = 205 /\ Fetch(1) = 16
    /\ tty' = Append(tty, <<cpu.ah, cpu.al>>)
    /\ \E ax \in AxAfterInt :
          cpu' = [cpu EXCEPT !.ip = Advance(2), !.ah = ax.ah, !.al = ax.al]
    /\ UNCHANGED <<fsvars, mainvars, lastread>>

\* F4  hlt: with interrupts off the processor stays halted
Hlt ==
    /\ Running /\ Fetch(0) = 244
    /\ cpu' = [cpu EXCEPT !.ip = Advance(1), !.halted = TRUE]
    /\ UNCHANGED <<fsvars, mainvars, tty, lastread>>

NextBoot ==
    \/ Cli \/ XorAxAx \/ MovSregAx \/ MovSpImm \/ MovSiImm \/ MovAhImm \/ MovAlImm
    \/ Lodsb \/ OrAlAl \/ Jz \/ JmpShort \/ Int10 \/ Hlt

\* the processor executes one instruction after another
SpecBoot == InitBoot /\ [][NextBoot]_vars /\ WF_vars(NextBoot)

----------------------------------------------------------------------------
(* Properties of the library functions, checked under Spec *)

Created == call.fn = "create_boot_image" /\ call.exc = "none"
Verified == call.fn = "verify_image" /\ call.existed
Described == call.fn = "print_info" /\ call.existed /\ call.exc = "none"

\* C1: verify_image called on a path right after create_boot_image returned
\* for that path returns True and prints nothing.
RoundTripVerifies ==
    (call.fn = "verify_image" /\ call.follows) =>
        /\ call.exc = "none"
        /\ call.ret = RetBool(TRUE)
        /\ call.out = <<>>

RoundTripDone ==
    /\ call.fn = "verify_image"
    /\ call.follows
    /\ call.ret = RetBool(TRUE)

\* C2: for every output path (parent directory present, parent directory
\* missing, no directory component) create_boot_image returns the path and
\* leaves a 512-byte file there, inside an existing parent directory.
BuildSucceedsOnEveryPath ==
    call.fn = "create_boot_image" =>
        /\ call.exc = "none"
        /\ call.ret = RetPath(call.path)
        /\ call.path \in DOMAIN files
        /\ Len(files[call.path]) = 512
        /\ ParentExists(dirs, call.path)

\* the layout as the data model states it, byte by byte (0-based offset o)
ExpectedByte(o) ==
    IF o \in 0..3 THEN MAGIC[o + 1]
    ELSE IF o = 4 THEN 1
    ELSE IF o = 5 THEN 0
    ELSE IF o = 6 THEN 254
    ELSE IF o = 7 THEN 1
    ELSE IF o \in 8..36 THEN boot_code[o - 7]
    ELSE IF o \in 96..253 THEN msg[o - 95]
    ELSE IF o = 510 THEN 85
    ELSE IF o = 511 THEN 170
    ELSE 0
ExpectedLayout == [i \in 1..512 |-> ExpectedByte(i - 1)]

\* C3: whatever the file held before, create_boot_image leaves exactly the
\* fixed layout; the fields do not overlap, no field write changes the buffer
\* length, and a second build leaves the bytes of the first.
BuildWritesFixedLayout ==
    /\ Len(boot_code) = 29
    /\ Len(msg) = 158
    /\ msg[Len(msg)] = 0
    /\ 4 <= CODE_OFFSET
    /\ CODE_OFFSET + Len(boot_code) <= MSG_OFFSET
    /\ MSG_OFFSET + Len(msg) <= SIG_OFFSET
    /\ \A b \in {sector_init, sector_magic, sector_header, sector_code,
                 sector_msg, sector} : Len(b) = 512
    /\ Created => files[call.path] = ExpectedLayout
    /\ (Created /\ call.follows) => files[call.path] = call.before

BuildOverwrote ==
    /\ Created
    /\ call.existed
    /\ Len(call.before) > 512
    /\ files[call.path] = ExpectedLayout

\* a built image with one byte outside the magic and the signature changed
\* still verifies
OtherBytesIgnored ==
    \A o \in 4..509 :
        VerifyData(ItemAssign(sector, o, (sector[o + 1] + 1) % 256))
            = Verdict(RetBool(TRUE), <<>>, "none")

\* C4: on a readable file of any length verify_image raises nothing and
\* returns True exactly when the length is 512, bytes 0-3 are 'NXOB' and
\* bytes 510, 511 are 0x55, 0xAA.
VerifyIffLengthMagicSignature ==
    Verified =>
        /\ call.exc = "none"
        /\ call.ret.kind = "bool"
        /\ call.ret.b <=>
              /\ Len(call.before) = 512
              /\ \A i \in 1..4 : call.before[i] = MAGIC[i]
              /\ call.before[511] = 85
              /\ call.before[512] = 170
        /\ OtherBytesIgnored

VerifyRejectsEmptyFile ==
    /\ Verified
    /\ call.before = <<>>
    /\ call.ret = RetBool(FALSE)
    /\ call.exc = "none"

\* the first check that fails on the bytes, in the order length, magic, signature
FirstFailing(data) ==
    IF Len(data) # 512 THEN "ERROR: Image size"
    ELSE IF \E i \in 1..4 : data[i] # MAGIC[i] THEN "ERROR: RIFT magic"
    ELSE IF data[511] # 85 \/ data[512] # 170 THEN "ERROR: Boot signature"
    ELSE "none"

\* a built image with byte 0 changed to any other value, with byte 511
\* changed to any value but 0xAA, or cut to any shorter length: the one
\* diagnostic printed
OneByteChanged ==
    /\ \A v \in (0..255) \ {78} :
          VerifyData(ItemAssign(sector, 0, v)).out
              = <<MagicError(<<v, 88, 79, 66>>)>>
    /\ \A v \in (0..255) \ {170} :
          VerifyData(ItemAssign(sector, 511, v)).out
              = <<LineP("ERROR: Boot signature", <<5, 5, v \div 16, v % 16>>, <<>>)>>
    /\ \A n \in 0..511 :
          VerifyData(SubSeq(sector, 1, n)).out = <<SizeError(SubSeq(sector, 1, n))>>

\* C5: a False verdict comes with exactly one diagnostic, that of the first
\* failing check in the order length, magic, signature; a True verdict
\* comes with none.
VerifyReportsFirstFailure ==
    Verified =>
        /\ call.ret = RetBool(FALSE) =>
              /\ Len(call.out) = 1
              /\ call.out[1].tag = FirstFailing(call.before)
        /\ call.ret = RetBool(TRUE) => call.out = <<>>
        /\ call.ret = RetBool(TRUE) <=> FirstFailing(call.before) = "none"
        /\ OneByteChanged

VerifyBadMagicAndSignature ==
    /\ Verified
    /\ Len(call.before) = 512
    /\ call.before[1] # 78
    /\ call.before[512] # 170
    /\ Len(call.out) = 1
    /\ call.out[1].tag = "ERROR: RIFT magic"

\* NUL bytes at or after 0x60
NoNulFrom(data) == \A e \in 96..(Len(data) - 1) : data[e + 1] # 0
FirstNul(data, e) == data[e + 1] = 0 /\ \A j \in 96..(e - 1) : data[j + 1] # 0
MessagesPrinted == {k \in 1..Len(call.out) : call.out[k].tag = "Boot Message"}

\* C8 as stated: the printed message is exactly the bytes from 0x60 up to the
\* first NUL, and nothing is printed when there is no NUL or it is at 0x60.
MessageIsExactBytes ==
    Described =>
        /\ (NoNulFrom(call.before) \/ call.before[97] = 0) => MessagesPrinted = {}
        /\ \A e \in 97..(Len(call.before) - 1) :
              FirstNul(call.before, e) =>
                 /\ MessagesPrinted = {Len(call.out)}
                 /\ call.out[Len(call.out)].val = SubSeq(call.before, 97, e)

\* C8: the printed message is the ASCII decoding of the bytes from 0x60 up to
\* the first NUL, each byte of 0x80 or more shown as U+FFFD; nothing is
\* printed when there is no NUL or it is at 0x60; on a built image the
\* message is the embedded text without its NUL.
MessageIsDecodedBytes ==
    Described =>
        /\ (NoNulFrom(call.before) \/ call.before[97] = 0) => MessagesPrinted = {}
        /\ \A e \in 97..(Len(call.before) - 1) :
              FirstNul(call.before, e) =>
                 /\ MessagesPrinted = {Len(call.out)}
                 /\ Len(call.out[Len(call.out)].val) = e - 96
                 /\ \A k \in 1..(e - 96) :
                       call.out[Len(call.out)].val[k] =
                          IF call.before[96 + k] < 128 THEN call.before[96 + k]
                          ELSE 65533
        /\ call.before = ExpectedLayout =>
              call.out[Len(call.out)].val = SubSeq(msg, 1, 157)

MessageWithHighByte ==
    /\ Described
    /\ MessagesPrinted # {}
    /\ \E k \in 1..Len(call.out[Len(call.out)].val) :
          call.out[Len(call.out)].val[k] = 65533

\* C9: verify_image and print_info leave every file and directory as it was;
\* a step that changes a file is a create_boot_image that returned, and it
\* replaces the whole content of its one path.
OnlyBuildWrites ==
    [][ /\ call'.fn \in {"verify_image", "print_info"} =>
              (files' = files /\ dirs' = dirs)
        /\ files' # files =>
              /\ call'.fn = "create_boot_image"
              /\ call'.exc = "none"
              /\ DOMAIN files' = DOMAIN files \cup {call'.path}
              /\ Len(files'[call'.path]) = 512
              /\ \A q \in DOMAIN files : q # call'.path => files'[q] = files[q]
      ]_vars

ReadLeftFileAlone ==
    /\ call.fn \in {"verify_image", "print_info"}
    /\ call.existed
    /\ call.ret # RetBool(TRUE)
    /\ files[call.path] = call.before
    /\ Len(call.before) > 0


----------------------------------------------------------------------------
(* Properties of the command-line program, checked under SpecMain *)

IsPrefix(a, b) == Len(a) <= Len(b) /\ SubSeq(b, 1, Len(a)) = a
Happened(e) == \E i \in 1..Len(events) : events[i] = e
Raised ==
    \/ Happened("create_boot_image raised")
    \/ Happened("verify_image raised")
    \/ Happened("print_info raised")

OkRun == <<"banner", "create_boot_image", "verify_image True", "success marker",
           "print_info", "exit">>
FailRun == <<"banner", "create_boot_image", "verify_image False", "failure marker",
             "exit">>

\* the path the command line names
NamedPath == IF Len(argv) = 1 THEN <<"img", "mmuko-os.img">> ELSE argv[2]

\* C6: in a run without an error the order is banner, Build, Verify; a True
\* verdict gives the success marker, the report and exit code 0, a False
\* verdict the diagnostic, the failure marker and exit code 1; code 0 only
\* after True, code 1 only after False; Build, Verify and Describe all use
\* the default path without an argument and the argument with one.
MainRunsInOrder ==
    /\ MainOutcome(TRUE).exit = 0
    /\ MainOutcome(FALSE).exit = 1
    /\ MainOutcome(FALSE).lines = FailureLines
    /\ pc \notin {"start", "create"} => call.path = NamedPath
    /\ (exitcode = -1) <=> (pc # "exited")
    /\ ~Raised =>
          /\ IsPrefix(events, OkRun) \/ IsPrefix(events, FailRun)
          /\ exitcode \in {-1, 0, 1}
          /\ exitcode = 0 =>
                /\ events = OkRun
                /\ Len(stdout) >= 10
                /\ stdout[1].tag = "=== MMUKO-OS Boot Image Generator ==="
                /\ stdout[3].tag = "Boot image created successfully"
                /\ stdout[5] = LineP("Image", <<>>, NamedPath)
                /\ stdout[6] = LineP("Size", <<512>>, <<>>)
                /\ stdout[7] = LineP("RIFT Magic", <<78, 88, 79, 66>>, <<>>)
                /\ stdout[10] = LineP("Boot Signature", <<5, 5, 10, 10>>, <<>>)
          /\ exitcode = 1 =>
                /\ events = FailRun
                /\ Len(stdout) = 4
                /\ stdout[3].tag \in {"ERROR: Image size", "ERROR: RIFT magic",
                                      "ERROR: Boot signature"}
                /\ stdout[4].tag = "Boot image verification failed"

MainExitedZeroOnDefaultPath ==
    /\ pc = "exited"
    /\ exitcode = 0
    /\ Len(argv) = 1
    /\ call.fn = "print_info"
    /\ call.path = <<"img", "mmuko-os.img">>
    /\ events = OkRun

\* C7: print_info runs only after create_boot_image has returned and
\* verify_image has returned True: never before the build, never after a
\* False verdict.
DescribeOnlyAfterVerified ==
    /\ ~MainOutcome(FALSE).describe
    /\ (pc = "info" \/ Happened("print_info") \/ Happened("print_info raised")) =>
          /\ Len(events) >= 4
          /\ events[2] = "create_boot_image"
          /\ events[3] = "verify_image True"
          /\ ~Happened("verify_image False")
          /\ NamedPath \in DOMAIN files
    /\ call.fn = "print_info" => Happened("verify_image True")

DescribeRan ==
    /\ call.fn = "print_info"
    /\ Happened("print_info")
    /\ events[3] = "verify_image True"
    /\ call.existed
    /\ Len(argv) > 1

----------------------------------------------------------------------------
(* Properties of the boot code, checked under SpecBoot *)

\* length of the instruction whose first byte is op
InsnLen(op) ==
    IF op \in {250, 172, 244} THEN 1
    ELSE IF op \in {188, 190} THEN 3
    ELSE 2

\* offsets in the image at which an instruction of the code region starts
RECURSIVE InsnStartsFrom(_)
InsnStartsFrom(o) ==
    IF o >= CODE_OFFSET + Len(boot_code) THEN {}
    ELSE {o} \cup InsnStartsFrom(o + InsnLen(sector[o + 1]))
InsnStarts == InsnStartsFrom(CODE_OFFSET)

\* offset in the image of the next instruction
IpOffset == Phys(cpu.cs, cpu.ip) - LOAD_ADDR

\* the teletype calls the message asks for
WantedTty == [i \in 1..157 |-> <<14, msg[i]>>]

BootSafe ==
    pc = "boot" =>
        /\ IpOffset \in InsnStarts
        /\ IsPrefix(tty, WantedTty)
        /\ lastread = -1 \/ (lastread >= 96 /\ lastread <= 253)
        /\ (IpOffset = 21 /\ lastread = -1) => (cpu.si = 31840 /\ cpu.ds = 0)
        /\ IpOffset >= 21 => (~cpu.df /\ cpu.ds = 0)
        /\ cpu.halted =>
              /\ cpu.al = 85
              /\ tty = WantedTty
              /\ lastread = 253
        /\ sector[27] = 116 /\ 26 + 2 + sector[28] = 32 /\ 32 \in InsnStarts
        /\ sector[31] = 235 /\ 30 + 2 + (sector[32] - 256) = 21 /\ 21 \in InsnStarts
        /\ \A o \in InsnStarts : o >= 8 /\ o <= 36

\* C10: entered at offset 8 of the image loaded at 0x7C00, the boot code
\* loads SI with 0x7C60, calls int 0x10 with AH = 0x0E once for each message
\* byte before the NUL, in order, and not for the NUL, never reads past the
\* NUL, only ever jumps to an instruction boundary of the code region, and
\* reaches hlt with AL = 0x55.
BootCodePrintsAndHalts == []BootSafe /\ <>(cpu.halted)

BootHalted ==
    /\ pc = "boot"
    /\ cpu.halted
    /\ cpu.al = 85
    /\ Len(tty) = 157
    /\ lastread = 253

====
